---- MODULE Spec2Model ----
(***************************************************************************)
(* The review-analysis request of app-gaps: POST /api/analyze              *)
(* (src/src/app/api/analyze/route.ts).  One request is one sequential      *)
(* control flow: read the body, extract the app identifier, look the app   *)
(* up, fetch review pages 1..10, flatten the reviews, reduce them under    *)
(* the token budget, call the completion endpoint, parse its text and      *)
(* answer.                                                                 *)
(*                                                                         *)
(* Strings.  The caller's input is a sequence of one-character strings.    *)
(* Review text is a run-length string: a sequence of runs <<c, n>> (n >= 1 *)
(* copies of the character c, adjacent runs of different characters), so   *)
(* that texts of thousands of characters stay small; length, slice and     *)
(* concatenation are exact on it.  The completion text is a sequence of    *)
(* lexical tokens.                                                         *)
(***************************************************************************)
EXTENDS Integers, Sequences, FiniteSets, TLC

VARIABLES
    pc,              \* position of the request handler
    body,            \* the request body as request.json() finds it
    keyConfigured,   \* process.env.OPENAI_API_KEY is set
    input,           \* const { input }
    appId,           \* let appId: string | null
    appInfo,         \* const appInfo
    page,            \* the loop variable of the fetch loop
    allReviews,      \* const allReviews: Review[]
    reviewContents,  \* const reviewContents
    processedReviews,\* const processedReviews (analyzeReviewsWithGPT)
    completionText,  \* const response (the completion's text)
    response,        \* the NextResponse returned, or NoResponse
    requests,        \* the network requests issued so far, in order
    pages,           \* what each page request came back with, in order
    delays,          \* the inter-page delays taken, in order, in milliseconds
    completions,     \* what each completion call came back with, in order
    thrown           \* the error caught on line 317, or NoError

vars == <<pc, body, keyConfigured, input, appId, appInfo, page, allReviews,
          reviewContents, processedReviews, completionText, response,
          requests, pages, delays, completions, thrown>>

-----------------------------------------------------------------------------
(* Constants of route.ts *)

MAX_REVIEWS == 100
MAX_TOKENS_PER_REVIEW == 1000
MAX_TOTAL_TOKENS == 6000
RSS_PAGES == 10
RSS_DELAY_MS == 100
MAX_REVIEWS_TOTAL == 500

CharsPerToken == 4
MinIdDigits == 7
MaxIdDigits == 12

-----------------------------------------------------------------------------
(* Values of JavaScript that are not strings or arrays *)

Undefined == [type |-> "undefined"]
Null == [type |-> "null"]
NoResponse == [type |-> "none"]
NoError == [class |-> "none"]

Min(a, b) == IF a <= b THEN a ELSE b

-----------------------------------------------------------------------------
(* Plain strings: the caller's input *)

Digits == {"0", "1", "2", "3", "4", "5", "6", "7", "8", "9"}
WhiteSpace == {" ", "\t", "\n"}

IsDigit(c) == c \in Digits

RECURSIVE TrimStart(_)
TrimStart(s) ==
    IF s # <<>> /\ Head(s) \in WhiteSpace THEN TrimStart(Tail(s)) ELSE s

RECURSIVE TrimEnd(_)
TrimEnd(s) ==
    IF s # <<>> /\ s[Len(s)] \in WhiteSpace
    THEN TrimEnd(SubSeq(s, 1, Len(s) - 1))
    ELSE s

\* String.prototype.trim
Trim(s) == TrimEnd(TrimStart(s))

\* the number of digits at the head of s, counted up to max
RECURSIVE DigitRun(_, _)
DigitRun(s, max) ==
    IF max = 0 \/ s = <<>> \/ ~IsDigit(Head(s))
    THEN 0
    ELSE 1 + DigitRun(Tail(s), max - 1)

\* /^\d{7,12}$/.test(s)
TestNumericId(s) ==
    /\ Len(s) >= MinIdDigits
    /\ Len(s) <= MaxIdDigits
    /\ DigitRun(s, Len(s)) = Len(s)

StartsWith(s, p) == Len(s) >= Len(p) /\ SubSeq(s, 1, Len(p)) = p

IdMarker == <<"/", "i", "d">>

\* MatchUrlId with the pattern /\/id(\d+)/ of the legacy route
RECURSIVE MatchUrlIdUnbounded(_)
MatchUrlIdUnbounded(s) ==
    IF s = <<>>
    THEN Null
    ELSE IF StartsWith(s, IdMarker) /\ DigitRun(SubSeq(s, 4, Len(s)), Len(s)) >= 1
         THEN [type |-> "string",
               chars |-> SubSeq(s, 4, 3 + DigitRun(SubSeq(s, 4, Len(s)), Len(s)))]
         ELSE MatchUrlIdUnbounded(Tail(s))

\* s.match(/\/id(\d{7,12})/): the capture group of the leftmost match, the
\* quantifier taking as many digits as it can; Null when nothing matches
RECURSIVE MatchUrlId(_)
MatchUrlId(s) ==
    IF s = <<>>
    THEN Null
    ELSE IF StartsWith(s, IdMarker)
            /\ DigitRun(SubSeq(s, 4, Len(s)), MaxIdDigits) >= MinIdDigits
         THEN [type |-> "string",
               chars |-> SubSeq(s, 4, 3 + DigitRun(SubSeq(s, 4, Len(s)), MaxIdDigits))]
         ELSE MatchUrlId(Tail(s))

\* lines 253-272: the identifier, or the ValidationError's message
ExtractAppId(in) ==
    IF in.type # "string" \/ in.chars = <<>>
    THEN [ok |-> FALSE, error |-> "Missing or invalid input"]
    ELSE IF TestNumericId(Trim(in.chars))
         THEN [ok |-> TRUE, appId |-> Trim(in.chars)]
         ELSE IF MatchUrlId(in.chars).type = "string"
              THEN [ok |-> TRUE, appId |-> MatchUrlId(in.chars).chars]
              ELSE [ok |-> FALSE, error |-> "Invalid input"]

-----------------------------------------------------------------------------
(* Run-length strings: review text *)

Str(runs) == [type |-> "string", text |-> runs]

\* text.length
RECURSIVE RLen(_)
RLen(t) == IF t = <<>> THEN 0 ELSE Head(t)[2] + RLen(Tail(t))

\* the runs of a followed by the runs of b, the last run of a and the first
\* run of b made one when they repeat the same character
RCatRuns(a, b) ==
    IF a = <<>> THEN b
    ELSE IF b = <<>> THEN a
    ELSE IF a[Len(a)][1] = Head(b)[1]
         THEN SubSeq(a, 1, Len(a) - 1)
              \o <<(<<Head(b)[1], a[Len(a)][2] + Head(b)[2]>>)>>
              \o Tail(b)
         ELSE a \o b

\* a + b: both operands are values before they are joined, each evaluated once
RCat(a, b) == CHOOSE r \in {RCatRuns(x, y) : x \in {a}, y \in {b}} : TRUE

\* text.slice(0, n), n >= 0
RECURSIVE RSlice(_, _)
RSlice(t, n) ==
    IF n = 0 \/ t = <<>>
    THEN <<>>
    ELSE IF Head(t)[2] >= n
         THEN <<(<<Head(t)[1], n>>)>>
         ELSE <<Head(t)>> \o RSlice(Tail(t), n - Head(t)[2])

\* the literals of the template on line 307 and the marker of line 96
RatingOpen ==
    <<(<<"[", 1>>), (<<"R", 1>>), (<<"a", 1>>), (<<"t", 1>>), (<<"i", 1>>),
      (<<"n", 1>>), (<<"g", 1>>), (<<":", 1>>), (<<" ", 1>>)>>
RatingClose == <<(<<"/", 1>>), (<<"5", 1>>), (<<"]", 1>>), (<<" ", 1>>)>>
NewLine == <<(<<"\n", 1>>)>>
TruncationMarker == <<(<<"U+00E2", 1>>), (<<"U+20AC", 1>>), (<<"U+00A6", 1>>)>>

-----------------------------------------------------------------------------
(* Token budget: lines 83-97 and 128-143 *)

\* Math.ceil(text.length / 4)
estimateTokens(text) == (RLen(text) + CharsPerToken - 1) \div CharsPerToken

truncateToTokens(text, maxTokens) ==
    IF estimateTokens(text) <= maxTokens
    THEN text
    ELSE RCat(RSlice(text, maxTokens * CharsPerToken), TruncationMarker)

\* SliceAndTruncate keeping the last MAX_REVIEWS reviews: slice(-MAX_REVIEWS)
SliceLastAndTruncate(reviews) ==
    [i \in 1..Min(Len(reviews), MAX_REVIEWS) |->
        truncateToTokens(reviews[i + Len(reviews) - Min(Len(reviews), MAX_REVIEWS)],
                         MAX_TOKENS_PER_REVIEW)]

\* reviews.slice(0, MAX_REVIEWS).map(review => truncateToTokens(...))
SliceAndTruncate(reviews) ==
    [i \in 1..Min(Len(reviews), MAX_REVIEWS) |->
        truncateToTokens(reviews[i], MAX_TOKENS_PER_REVIEW)]

\* processedReviews.reduce((sum, review) => sum + estimateTokens(review), 0),
\* summed by halves: addition is associative
RECURSIVE SumTokensRange(_, _, _)
SumTokensRange(reviews, lo, hi) ==
    IF lo > hi THEN 0
    ELSE IF lo = hi THEN estimateTokens(reviews[lo])
    ELSE SumTokensRange(reviews, lo, (lo + hi) \div 2)
         + SumTokensRange(reviews, (lo + hi) \div 2 + 1, hi)

SumTokens(reviews) == SumTokensRange(reviews, 1, Len(reviews))

\* PopWhileOver as an if: one item is dropped, then the loop is left
PopOnceIfOver(reviews, totalReviewTokens) ==
    IF totalReviewTokens > MAX_TOTAL_TOKENS /\ Len(reviews) > 0
    THEN SubSeq(reviews, 1, Len(reviews) - 1)
    ELSE reviews

\* line 140: the guard of the while loop, for the array's current length
PopGuard(totalReviewTokens, length) ==
    totalReviewTokens > MAX_TOTAL_TOKENS /\ length > 0

\* lines 140-142: while (guard) pop().  Each pass shortens the array by one,
\* so the loop ends at the greatest length at which the guard fails, the
\* guard having held at every length above it; if the guard failed at no
\* length the loop would not end, and there is no such length to choose.
\* totalReviewTokens is a const, computed once on line 134, so the loop pops
\* either no item or, one by one from the end, every item
PopWhileOver(reviews, totalReviewTokens) ==
    LET stop == CHOOSE n \in 0..Len(reviews) :
                    /\ ~PopGuard(totalReviewTokens, n)
                    /\ \A m \in (n + 1)..Len(reviews) :
                          PopGuard(totalReviewTokens, m)
    IN  SubSeq(reviews, 1, stop)

\* lines 129-143: processedReviews as the prompt embeds it.  processedReviews
\* and totalReviewTokens are consts: each is computed once, then used
ReduceReviews(reviews) ==
    CHOOSE result \in
        UNION {{IF totalReviewTokens > MAX_TOTAL_TOKENS
                THEN PopWhileOver(processed, totalReviewTokens)
                ELSE processed :
                    totalReviewTokens \in {SumTokens(processed)}} :
               processed \in {SliceAndTruncate(reviews)}} : TRUE

-----------------------------------------------------------------------------
(* Flattening: lines 302-309 *)

\* x?.label || dflt for a field that is Undefined or a string
LabelOr(field, dflt) ==
    IF field.type = "string" /\ field.text # <<>> THEN field.text ELSE dflt

\* reading a property of null or undefined throws a TypeError
FlattenThrows(review) == review.type \in {"null", "undefined"}

\* an entry that is not an object (a character of a string) has no properties
Field(review, name) ==
    IF review.type = "object" THEN review[name] ELSE Undefined

\* the template literal: [Rating: ${rating}/5] ${title}\n${content}
FlattenReview(review) ==
    LET rating == LabelOr(Field(review, "rating"), <<(<<"0", 1>>)>>)
        title == LabelOr(Field(review, "title"), <<>>)
        content == LabelOr(Field(review, "content"), <<>>)
    IN  RCat(RCat(RCat(RCat(RCat(RatingOpen, rating), RatingClose), title),
                  NewLine), content)

\* .map(...).filter(content => typeof content === 'string' && content.length > 0)
FlattenAll(reviews) ==
    SelectSeq([i \in 1..Len(reviews) |-> FlattenReview(reviews[i])],
              LAMBDA content : RLen(content) > 0)

-----------------------------------------------------------------------------
(* One page of the feed: fetchReviewsPage, lines 99-120 *)

Array(items) == [type |-> "array", items |-> items]
Number(n) == [type |-> "number", v |-> n]

\* x || [] : undefined, null, '' and 0 are falsy
Falsy(x) ==
    \/ x.type \in {"undefined", "null"}
    \/ x.type = "string" /\ x.text = <<>>
    \/ x.type = "number" /\ x.v = 0

\* fetchReviewsPage that returns nothing where it returns [] on a failure
fetchReviewsPageUndefined(o) ==
    IF o.net = "error" THEN Undefined
    ELSE IF ~o.ok THEN Undefined
    ELSE IF ~o.json THEN Undefined
    ELSE IF o.data.type # "object" THEN Undefined
    ELSE IF o.data.feed.type # "object" THEN Array(<<>>)
    ELSE IF o.data.feed.entry.type \in {"undefined", "null"} THEN Array(<<>>)
    ELSE o.data.feed.entry

\* What a page request comes back with is a record o:
\*   o.net = "error"                     fetch rejects
\*   o.net = "ok", o.ok = FALSE          a status outside 200..299
\*   o.net = "ok", o.ok, o.json = FALSE  response.json() rejects
\*   o.net = "ok", o.ok, o.json          o.data is the parsed body:
\*       Null, or an object whose feed is Undefined, Null or an object with
\*       an entry (any value)
fetchReviewsPage(o) ==
    IF o.net = "error" THEN Array(<<>>)
    ELSE IF ~o.ok THEN Array(<<>>)
    ELSE IF ~o.json THEN Array(<<>>)
    ELSE IF o.data.type # "object" THEN Array(<<>>)     \* data.feed throws
    ELSE IF o.data.feed.type # "object" THEN Array(<<>>) \* feed?.entry
    ELSE IF Falsy(o.data.feed.entry) THEN Array(<<>>)
    ELSE o.data.feed.entry

\* reviews.length
LengthOf(x) ==
    IF x.type = "array" THEN Number(Len(x.items))
    ELSE IF x.type = "string" THEN Number(RLen(x.text))
    ELSE Undefined

\* ...reviews: an array spreads to its items, a string to its characters,
\* anything else is not iterable and the spread throws a TypeError
Iterable(x) == x.type \in {"array", "string"}

\* the i-th character of a text, 1 <= i <= RLen(t)
RECURSIVE CharAt(_, _)
CharAt(t, i) ==
    IF i <= Head(t)[2] THEN Head(t)[1] ELSE CharAt(Tail(t), i - Head(t)[2])

Chars(t) == [i \in 1..RLen(t) |-> [type |-> "char", ch |-> CharAt(t, i)]]

Spread(x) == IF x.type = "array" THEN x.items ELSE Chars(x.text)

\* LoopStep without the cut of line 291
LoopStepNoCut(reviews, all, p) ==
    IF LengthOf(reviews) = Number(0)
    THEN [next |-> "break", all |-> all]
    ELSE IF ~Iterable(reviews)
    THEN [next |-> "throw", all |-> all]
    ELSE LET pushed == all \o Spread(reviews)
         IN  IF Len(pushed) >= MAX_REVIEWS_TOTAL
             THEN [next |-> "break", all |-> pushed]
             ELSE IF p < RSS_PAGES
                  THEN [next |-> "delay", all |-> pushed]
                  ELSE [next |-> "continue", all |-> pushed]

\* LoopStep without the break of lines 283-285
LoopStepNoBreak(reviews, all, p) ==
    IF ~Iterable(reviews)
    THEN [next |-> "throw", all |-> all]
    ELSE LET pushed == all \o Spread(reviews)
         IN  IF Len(pushed) >= MAX_REVIEWS_TOTAL
             THEN [next |-> "break", all |-> SubSeq(pushed, 1, MAX_REVIEWS_TOTAL)]
             ELSE IF p < RSS_PAGES
                  THEN [next |-> "delay", all |-> pushed]
                  ELSE [next |-> "continue", all |-> pushed]

\* LoopStep that cuts at the threshold but goes on to the next page
LoopStepCutNoStop(reviews, all, p) ==
    IF LengthOf(reviews) = Number(0)
    THEN [next |-> "break", all |-> all]
    ELSE IF ~Iterable(reviews)
    THEN [next |-> "throw", all |-> all]
    ELSE LET pushed == all \o Spread(reviews)
             kept == SubSeq(pushed, 1, Min(Len(pushed), MAX_REVIEWS_TOTAL))
         IN  IF p < RSS_PAGES
             THEN [next |-> "delay", all |-> kept]
             ELSE [next |-> "continue", all |-> kept]

\* LoopStep without the test page < RSS_PAGES of line 296
LoopStepAlwaysDelay(reviews, all, p) ==
    IF LengthOf(reviews) = Number(0)
    THEN [next |-> "break", all |-> all]
    ELSE IF ~Iterable(reviews)
    THEN [next |-> "throw", all |-> all]
    ELSE LET pushed == all \o Spread(reviews)
         IN  IF Len(pushed) >= MAX_REVIEWS_TOTAL
             THEN [next |-> "break", all |-> SubSeq(pushed, 1, MAX_REVIEWS_TOTAL)]
             ELSE [next |-> "delay", all |-> pushed]

\* lines 283-298 for one page result: what the loop does next, and allReviews
LoopStep(reviews, all, p) ==
    IF LengthOf(reviews) = Number(0)
    THEN [next |-> "break", all |-> all]
    ELSE IF ~Iterable(reviews)
    THEN [next |-> "throw", all |-> all]
    ELSE LET pushed == all \o Spread(reviews)
         IN  IF Len(pushed) >= MAX_REVIEWS_TOTAL
             THEN [next |-> "break", all |-> SubSeq(pushed, 1, MAX_REVIEWS_TOTAL)]
             ELSE IF p < RSS_PAGES
                  THEN [next |-> "delay", all |-> pushed]
                  ELSE [next |-> "continue", all |-> pushed]

-----------------------------------------------------------------------------
(* The completion text and its parsing: lines 196-211 *)

\* Lexical tokens of a completion text
P(c) == [t |-> "punct", v |-> c]     \* { } [ ] : ,
S(c) == [t |-> "str", v |-> c]       \* a JSON string literal
N(c) == [t |-> "num", v |-> c]       \* a JSON number literal
L(c) == [t |-> "lit", v |-> c]       \* null, true, false
W(c) == [t |-> "ws", v |-> c]        \* a white space character
FenceOpen == [t |-> "fence", v |-> "open-json"]  \* three backquotes and json
Fence == [t |-> "fence", v |-> "plain"]          \* three backquotes
Word(c) == [t |-> "word", v |-> c]   \* anything that is no JSON token

RECURSIVE SkipWs(_)
SkipWs(ts) == IF ts # <<>> /\ Head(ts).t = "ws" THEN SkipWs(Tail(ts)) ELSE ts

RECURSIVE DropWsEnd(_)
DropWsEnd(ts) ==
    IF ts # <<>> /\ ts[Len(ts)].t = "ws"
    THEN DropWsEnd(SubSeq(ts, 1, Len(ts) - 1))
    ELSE ts

\* response.trim()
TrimText(ts) == DropWsEnd(SkipWs(ts))

\* .replace(...): a leading json fence with the newline after it, if any,
\* and a trailing fence with the newline before it, if any, are removed
StripFences(ts) ==
    LET a == IF ts # <<>> /\ Head(ts) = FenceOpen
             THEN IF Len(ts) >= 2 /\ ts[2] = W("\n")
                  THEN SubSeq(ts, 3, Len(ts))
                  ELSE Tail(ts)
             ELSE ts
    IN  IF a # <<>> /\ a[Len(a)] = Fence
        THEN IF Len(a) >= 2 /\ a[Len(a) - 1] = W("\n")
             THEN SubSeq(a, 1, Len(a) - 2)
             ELSE SubSeq(a, 1, Len(a) - 1)
        ELSE a

ParseFail == [ok |-> FALSE]
Parsed(val, rest) == [ok |-> TRUE, val |-> val, rest |-> rest]

Object(fields) == [type |-> "object", fields |-> fields]
Scalar(tok) ==
    IF tok.t = "str" THEN [type |-> "string", v |-> tok.v]
    ELSE IF tok.t = "num" THEN [type |-> "number", v |-> tok.v]
    ELSE IF tok.v = "null" THEN Null
    ELSE [type |-> "boolean", v |-> tok.v]

\* fields with key set to val (a repeated key keeps the last value)
WithField(fields, key, val) ==
    [k \in DOMAIN fields \cup {key} |-> IF k = key THEN val ELSE fields[k]]

NoFields == [k \in {} |-> Null]

\* JSON.parse: a recursive-descent parser of the JSON grammar over tokens
RECURSIVE ParseValue(_), ParseMembers(_, _), ParseElements(_, _)
ParseValue(ts0) ==
    LET ts == SkipWs(ts0)
    IN  IF ts = <<>> THEN ParseFail
        ELSE IF Head(ts).t \in {"str", "num", "lit"}
        THEN Parsed(Scalar(Head(ts)), Tail(ts))
        ELSE IF Head(ts) = P("{")
        THEN LET r == SkipWs(Tail(ts))
             IN  IF r # <<>> /\ Head(r) = P("}")
                 THEN Parsed(Object(NoFields), Tail(r))
                 ELSE ParseMembers(r, NoFields)
        ELSE IF Head(ts) = P("[")
        THEN LET r == SkipWs(Tail(ts))
             IN  IF r # <<>> /\ Head(r) = P("]")
                 THEN Parsed(Array(<<>>), Tail(r))
                 ELSE ParseElements(r, <<>>)
        ELSE ParseFail

\* after "{" or ",": "key" : value, then "," or "}"
ParseMembers(ts0, fields) ==
    LET ts == SkipWs(ts0)
    IN  IF ts = <<>> \/ Head(ts).t # "str" THEN ParseFail
        ELSE LET c == SkipWs(Tail(ts))
             IN  IF c = <<>> \/ Head(c) # P(":") THEN ParseFail
                 ELSE LET v == ParseValue(Tail(c))
                      IN  IF ~v.ok THEN ParseFail
                          ELSE LET r == SkipWs(v.rest)
                                   f == WithField(fields, Head(ts).v, v.val)
                               IN  IF r = <<>> THEN ParseFail
                                   ELSE IF Head(r) = P("}")
                                   THEN Parsed(Object(f), Tail(r))
                                   ELSE IF Head(r) = P(",")
                                   THEN ParseMembers(Tail(r), f)
                                   ELSE ParseFail

\* after "[" or ",": value, then "," or "]"
ParseElements(ts0, items) ==
    LET v == ParseValue(ts0)
    IN  IF ~v.ok THEN ParseFail
        ELSE LET r == SkipWs(v.rest)
             IN  IF r = <<>> THEN ParseFail
                 ELSE IF Head(r) = P("]")
                 THEN Parsed(Array(Append(items, v.val)), Tail(r))
                 ELSE IF Head(r) = P(",")
                 THEN ParseElements(Tail(r), Append(items, v.val))
                 ELSE ParseFail

JSONParse(ts) ==
    LET v == ParseValue(ts)
    IN  IF v.ok /\ SkipWs(v.rest) = <<>> THEN [ok |-> TRUE, val |-> v.val]
        ELSE ParseFail

\* parsedResponse.name: throws on null, undefined for a missing property
HasProperty(x, name) == x.type = "object" /\ name \in DOMAIN x.fields
Property(x, name) == IF HasProperty(x, name) THEN x.fields[name] ELSE Undefined

\* value || [] for a parsed JSON value
JsonFalsy(x) ==
    \/ x.type \in {"undefined", "null"}
    \/ x.type = "string" /\ x.v = ""
    \/ x.type = "number" /\ x.v = "0"
    \/ x.type = "boolean" /\ x.v = "false"

OrEmptyArray(x) == IF JsonFalsy(x) THEN Array(<<>>) ELSE x

\* lines 198-211: the analysis, or the ValidationError of the inner catch
ParseAnalysis(text) ==
    LET parsedResponse == JSONParse(StripFences(TrimText(text)))
    IN  IF ~parsedResponse.ok THEN [ok |-> FALSE]
        ELSE IF parsedResponse.val.type = "null" THEN [ok |-> FALSE]
        ELSE [ok |-> TRUE,
              themes |-> OrEmptyArray(Property(parsedResponse.val, "themes")),
              prioritizedThemes |->
                  OrEmptyArray(Property(parsedResponse.val, "prioritizedThemes"))]

-----------------------------------------------------------------------------
(* Errors and responses: lines 62-81, 212-218 and 315-329 *)

ValidationError(message) ==
    [class |-> "ValidationError", message |-> message, status |-> 400]
APIConnectionError(message) ==
    [class |-> "APIConnectionError", message |-> message, status |-> 503]
\* an exception that is no AppError: a TypeError, a rejected fetch, ...
OtherError(message) == [class |-> "Error", message |-> message]

IsAppError(e) == e.class \in {"AppError", "ValidationError", "APIConnectionError"}

\* AnalyzeCatch without the instanceof test: every error is reclassified
AnalyzeCatchAll(e) == APIConnectionError("Failed to analyze reviews")

\* AnalyzeCatch that rethrows whatever it caught
AnalyzeCatchRethrow(e) == e

\* the catch of analyzeReviewsWithGPT, lines 212-218
AnalyzeCatch(e) ==
    IF IsAppError(e) THEN e ELSE APIConnectionError("Failed to analyze reviews")

\* ErrorResponse without the instanceof branch: every error is answered 500
ErrorResponseAlways500(e) ==
    [type |-> "response", status |-> 500,
     error |-> "Failed to process request",
     themes |-> Array(<<>>), prioritizedThemes |-> Array(<<>>)]

\* ErrorResponse that recognises a ValidationError only
ErrorResponseOnlyValidation(e) ==
    IF e.class = "ValidationError"
    THEN [type |-> "response", status |-> e.status, error |-> e.message,
          themes |-> Array(<<>>), prioritizedThemes |-> Array(<<>>)]
    ELSE [type |-> "response", status |-> 500,
          error |-> "Failed to process request",
          themes |-> Array(<<>>), prioritizedThemes |-> Array(<<>>)]

\* the catch of POST, lines 317-329
ErrorResponse(e) ==
    IF IsAppError(e)
    THEN [type |-> "response", status |-> e.status, error |-> e.message,
          themes |-> Array(<<>>), prioritizedThemes |-> Array(<<>>)]
    ELSE [type |-> "response", status |-> 500,
          error |-> "Failed to process request",
          themes |-> Array(<<>>), prioritizedThemes |-> Array(<<>>)]

\* line 315: NextResponse.json({ ...analysis, appInfo })
SuccessResponse(analysis, info) ==
    [type |-> "response", status |-> 200, error |-> "",
     themes |-> analysis.themes,
     prioritizedThemes |-> analysis.prioritizedThemes,
     appInfo |-> info]

-----------------------------------------------------------------------------
(* The inputs the request is checked on *)

\* bounds of the enumerated inputs
MaxChunks == 3        \* pieces an input string is made of
PageSize == 50        \* entries of an ordinary page
ShortSize == 5        \* entries of a short page, the feed's last one
ShortPages == 2       \* the last pages of the loop that may come back short
BigPage == 260        \* entries of an oversized page
ShortLen == 320       \* characters of an ordinary review body
LongLen == 4100       \* characters of a review body over the per-item cap
LongIndex == 7        \* the entry of a page that carries the long body

D6 == <<"1", "2", "3", "4", "5", "6">>
D7 == <<"7", "6", "5", "4", "3", "2", "1">>
Chunks == {<<" ">>, <<"x">>, <<"/", "i", "d">>, <<"/", "i">>, <<"9">>, D6, D7}

RECURSIVE ChunkStrings(_)
ChunkStrings(n) ==
    IF n = 0 THEN {<<>>}
    ELSE LET shorter == ChunkStrings(n - 1)
         IN  shorter \cup {s \o c : s \in shorter, c \in Chunks}

InputString(chars) == [type |-> "string", chars |-> chars]
JsonBody(in) == [kind |-> "object", input |-> in]

\* request bodies: not JSON, the JSON null, { } without input, a number, strings
OtherBodies ==
    {[kind |-> "invalid"], [kind |-> "null"], JsonBody(Undefined),
     JsonBody(Number(1234567))}

ExtractBodies ==
    OtherBodies \cup {JsonBody(InputString(s)) : s \in ChunkStrings(MaxChunks)}

MainBodies ==
    OtherBodies
    \cup {JsonBody(InputString(s)) :
            s \in {<<>>, D6, <<"x">> \o IdMarker \o D7 \o D6 \o <<"x">>}}

\* entry i of page p of the feed: a review with optional rating, title, body
Entry(p, i) ==
    [type |-> "object",
     id |-> <<p, i>>,
     rating |-> IF i % 4 = 0 THEN Undefined ELSE Str(<<(<<"3", 1>>)>>),
     title |-> IF i % 3 = 0 THEN Str(<<>>) ELSE Str(<<(<<"t", p + (i % 3)>>)>>),
     content |-> IF i % 5 = 0 THEN Undefined
                 ELSE IF i = LongIndex THEN Str(<<(<<"c", LongLen>>)>>)
                 ELSE Str(<<(<<"c", ShortLen + i>>)>>)]

Entries(p, n) == [i \in 1..n |-> Entry(p, i)]

Feed(entry) == [type |-> "object", feed |-> [type |-> "object", entry |-> entry]]
Ok(data) == [net |-> "ok", ok |-> TRUE, json |-> TRUE, data |-> data]

\* the kinds of answer a page request can get
PageKinds ==
    {"network error", "status", "not json", "null body", "no feed",
     "null feed", "no entry", "empty array", "empty string", "zero",
     "object", "page", "big page", "null entries"}

\* the kinds of answer the request for page p can get: one of the last
\* pages of the loop may also be a short page
PageKindsAt(p) ==
    IF p > RSS_PAGES - ShortPages THEN PageKinds \cup {"short page"} ELSE PageKinds

\* what the request for page p comes back with, for each kind
Upstream(p, kind) ==
    CASE kind = "network error" -> [net |-> "error"]
      [] kind = "status" -> [net |-> "ok", ok |-> FALSE]
      [] kind = "not json" -> [net |-> "ok", ok |-> TRUE, json |-> FALSE]
      [] kind = "null body" -> Ok(Null)
      [] kind = "no feed" -> Ok([type |-> "object", feed |-> Undefined])
      [] kind = "null feed" -> Ok([type |-> "object", feed |-> Null])
      [] kind = "no entry" -> Ok(Feed(Undefined))
      [] kind = "empty array" -> Ok(Feed(Array(<<>>)))
      [] kind = "empty string" -> Ok(Feed(Str(<<>>)))
      [] kind = "zero" -> Ok(Feed(Number(0)))
      [] kind = "object" -> Ok(Feed(Entry(p, 1)))    \* a single review, unwrapped
      [] kind = "page" -> Ok(Feed(Array(Entries(p, PageSize))))
      [] kind = "short page" -> Ok(Feed(Array(Entries(p, ShortSize))))
      [] kind = "big page" -> Ok(Feed(Array(Entries(p, BigPage))))
      [] kind = "null entries" ->
            Ok(Feed(Array(<<Null>> \o Entries(p, BigPage))))

\* completion texts
ThemeTokens ==
    <<P("{"), S("title"), P(":"), S("t"), P(","), S("summary"), P(":"), S("s"),
      P(","), S("quote"), P(":"), S("q"), P(","), S("impact"), P(":"),
      S("High"), P(","), S("feature"), P(":"), S("f"), P("}")>>
EmptyAnalysis ==
    <<P("{"), S("themes"), P(":"), P("["), P("]"), P(","),
      S("prioritizedThemes"), P(":"), P("["), P("]"), P("}")>>
OnlyThemes ==
    <<P("{"), S("themes"), P(":"), P("[")>> \o ThemeTokens \o <<P("]"), P("}")>>
WithValues(a, b) ==
    <<P("{"), S("themes"), P(":"), a, P(","),
      S("prioritizedThemes"), P(":"), b, P("}")>>

CompletionTexts ==
    {<<>>,
     <<FenceOpen, W("\n")>> \o EmptyAnalysis \o <<W("\n"), Fence>>,
     <<FenceOpen>> \o OnlyThemes \o <<Fence>>,
     <<Fence, W("\n")>> \o EmptyAnalysis \o <<W("\n"), Fence>>,
     <<W(" ")>> \o OnlyThemes \o <<W("\n")>>,
     <<Word("not"), W(" "), Word("json")>>,
     EmptyAnalysis \o <<Word("Hope"), W(" "), Word("this"), W(" "), Word("helps")>>,
     <<P("{"), S("themes"), P(":"), P("["), P("]"), P(","), P("}")>>,
     <<L("null")>>,
     <<N("5")>>,
     <<P("["), P("]")>>,
     <<P("{"), P("}")>>,
     WithValues(S("abc"), N("7")),
     WithValues(L("null"), N("0")),
     WithValues(S(""), L("false")),
     <<P("{"), S("themes"), P(":"), P("{"), P("}"), P("}")>>}

\* what the completion call comes back with: a rejection, or a completion
\* whose choices are missing, empty, without message or content, or a text
CompletionOutcomes ==
    {[kind |-> "rejected"], [kind |-> "no choices"], [kind |-> "empty choices"],
     [kind |-> "no message"], [kind |-> "null content"]}
    \cup {[kind |-> "text", text |-> t] : t \in CompletionTexts}

-----------------------------------------------------------------------------
(* The request handler POST, lines 249-330 *)

Idle ==
    /\ input = Undefined
    /\ appId = <<>>
    /\ appInfo = Undefined
    /\ page = 1
    /\ allReviews = <<>>
    /\ reviewContents = <<>>
    /\ processedReviews = <<>>
    /\ completionText = <<>>
    /\ response = NoResponse
    /\ requests = <<>>
    /\ pages = <<>>
    /\ delays = <<>>
    /\ completions = <<>>
    /\ thrown = NoError

Init ==
    /\ pc = "start"
    /\ body \in MainBodies
    /\ keyConfigured \in BOOLEAN
    /\ Idle

Finish(r) ==
    /\ response' = r
    /\ pc' = "done"

\* lines 317-329: the error e is caught and answered
Catch(e) ==
    /\ thrown' = e
    /\ Finish(ErrorResponse(e))

\* lines 251-272: read the body, take input, extract the identifier
ValidateInput ==
    /\ pc = "start"
    /\ IF body.kind # "object"
       THEN /\ Catch(OtherError("request.json"))
            /\ UNCHANGED <<input, appId>>
       ELSE /\ input' = body.input
            /\ LET id == ExtractAppId(body.input)
               IN  IF id.ok
                   THEN /\ appId' = id.appId
                        /\ pc' = "lookup"
                        /\ UNCHANGED <<response, thrown>>
                   ELSE /\ Catch(ValidationError(id.error))
                        /\ UNCHANGED appId
    /\ UNCHANGED <<body, keyConfigured, appInfo, page, allReviews,
                   reviewContents, processedReviews, completionText,
                   requests, pages, delays, completions>>

\* line 275 and fetchAppInfo, lines 222-247: never throws
FetchAppInfo ==
    /\ pc = "lookup"
    /\ requests' = Append(requests, [kind |-> "lookup", appId |-> appId])
    /\ \E found \in BOOLEAN :
          appInfo' = [type |-> "object", found |-> found]
    /\ page' = 1
    /\ allReviews' = <<>>
    /\ pc' = "loop"
    /\ UNCHANGED <<body, keyConfigured, input, appId, reviewContents,
                   processedReviews, completionText, response, pages, delays,
                   completions, thrown>>

\* line 280 and the fetch of line 103: the loop condition holds, page is asked for
RequestPage ==
    /\ pc = "loop"
    /\ page <= RSS_PAGES
    /\ requests' = Append(requests,
                          [kind |-> "page", appId |-> appId, page |-> page])
    /\ pc' = "awaitPage"
    /\ UNCHANGED <<body, keyConfigured, input, appId, appInfo, page,
                   allReviews, reviewContents, processedReviews,
                   completionText, response, pages, delays, completions,
                   thrown>>

\* NextPage that goes round the loop without testing page <= RSS_PAGES
NextPageNoExit ==
    /\ page' = page + 1
    /\ pc' = "loop"

\* line 280: page++ and the loop condition
NextPage ==
    /\ page' = page + 1
    /\ pc' = IF page + 1 <= RSS_PAGES THEN "loop" ELSE "flatten"

\* lines 281-298: the page's answer arrives and the loop body runs
ReceivePage ==
    /\ pc = "awaitPage"
    /\ \E kind \in PageKindsAt(page) :
          /\ pages' = Append(pages, kind)
          /\ LET reviews == fetchReviewsPage(Upstream(page, kind))
                 step == LoopStep(reviews, allReviews, page)
             IN  /\ allReviews' = step.all
                 /\ CASE step.next = "break" ->
                            /\ pc' = "flatten"
                            /\ UNCHANGED <<page, response, thrown>>
                      [] step.next = "throw" ->
                            /\ Catch(OtherError("not iterable"))
                            /\ UNCHANGED page
                      [] step.next = "delay" ->
                            /\ pc' = "delay"
                            /\ UNCHANGED <<page, response, thrown>>
                      [] step.next = "continue" ->
                            /\ NextPage
                            /\ UNCHANGED <<response, thrown>>
    /\ UNCHANGED <<body, keyConfigured, input, appId, appInfo, reviewContents,
                   processedReviews, completionText, requests, delays,
                   completions>>

\* line 297: setTimeout(resolve, RSS_DELAY_MS) has fired
Delay ==
    /\ pc = "delay"
    /\ delays' = Append(delays, RSS_DELAY_MS)
    /\ NextPage
    /\ UNCHANGED <<body, keyConfigured, input, appId, appInfo, allReviews,
                   reviewContents, processedReviews, completionText, response,
                   requests, pages, completions, thrown>>

\* lines 302-309
Flatten ==
    /\ pc = "flatten"
    /\ IF \E i \in 1..Len(allReviews) : FlattenThrows(allReviews[i])
       THEN /\ Catch(OtherError("property of null"))
            /\ UNCHANGED reviewContents
       ELSE /\ reviewContents' = FlattenAll(allReviews)
            /\ pc' = "analyze"
            /\ UNCHANGED <<response, thrown>>
    /\ UNCHANGED <<body, keyConfigured, input, appId, appInfo, page,
                   allReviews, processedReviews, completionText, requests,
                   pages, delays, completions>>

\* lines 312 and 123-194: the credential check, the reduction, the prompt
\* and the completion request
AnalyzeStart ==
    /\ pc = "analyze"
    /\ IF ~keyConfigured
       THEN /\ Catch(AnalyzeCatch(
                   ValidationError("OpenAI API key is not configured")))
            /\ UNCHANGED <<processedReviews, requests>>
       ELSE /\ processedReviews' = ReduceReviews(reviewContents)
            /\ requests' = Append(requests, [kind |-> "completion"])
            /\ pc' = "awaitCompletion"
            /\ UNCHANGED <<response, thrown>>
    /\ UNCHANGED <<body, keyConfigured, input, appId, appInfo, page,
                   allReviews, reviewContents, completionText, pages, delays,
                   completions>>

\* line 196: completion.choices[0]?.message?.content || ''
ContentOf(o) == IF o.kind = "text" THEN o.text ELSE <<>>

\* lines 194-218 and 315: the completion call returns or rejects, its text
\* is parsed and the request is answered
ReceiveCompletion ==
    /\ pc = "awaitCompletion"
    /\ \E o \in CompletionOutcomes :
          /\ completions' = Append(completions, o)
          /\ IF o.kind = "rejected"
             THEN /\ Catch(AnalyzeCatch(OtherError("completion")))
                  /\ UNCHANGED completionText
             ELSE IF o.kind = "no choices"
             THEN /\ Catch(AnalyzeCatch(OtherError("choices[0]")))
                  /\ UNCHANGED completionText
             ELSE /\ completionText' = ContentOf(o)
                  /\ LET analysis == ParseAnalysis(ContentOf(o))
                     IN  IF analysis.ok
                         THEN /\ Finish(SuccessResponse(analysis, appInfo))
                              /\ UNCHANGED thrown
                         ELSE Catch(AnalyzeCatch(ValidationError(
                                 "Failed to parse analysis response")))
    /\ UNCHANGED <<body, keyConfigured, input, appId, appInfo, page,
                   allReviews, reviewContents, processedReviews, requests,
                   pages, delays>>

Next ==
    \/ ValidateInput
    \/ FetchAppInfo
    \/ RequestPage
    \/ ReceivePage
    \/ Delay
    \/ Flatten
    \/ AnalyzeStart
    \/ ReceiveCompletion

Spec == Init /\ [][Next]_vars

\* The request under the assumption that every network call and every timer
\* comes back: a step that can be taken is taken.  The steps in between are
\* the handler's own code, which runs as soon as its awaited promise settles.
SpecLive == Spec /\ WF_vars(Next)

-----------------------------------------------------------------------------
(* The identifier extractor taken alone: every input string made of up to  *)
(* MaxChunks pieces, through validation and the lookup request             *)

InitExtract ==
    /\ pc = "start"
    /\ body \in ExtractBodies
    /\ keyConfigured = TRUE
    /\ Idle

NextExtract ==
    \/ ValidateInput
    \/ FetchAppInfo

SpecExtract == InitExtract /\ [][NextExtract]_vars

-----------------------------------------------------------------------------
(* The flattening and the reducer taken alone: review sequences of 0 to    *)
(* MaxFew and of about MAX_REVIEWS entries, the shapes of the entries      *)
(* after the first repeating with period PatternLen                        *)
(* Only allReviews matters to these two steps: the request starts where    *)
(* the fetch loop has ended, and the record of the fetch is left empty.    *)

PatternLen == 2
MaxFew == 7
MaxOver == 1

\* the characters the template adds around an absent title and body
TemplateLen == RLen(RatingOpen) + 1 + RLen(RatingClose) + RLen(NewLine)
\* the body length that brings a title-less review to exactly the per-item cap
ExactBody == MAX_TOKENS_PER_REVIEW * CharsPerToken - TemplateLen

PatternShapes == {"ratings only", "short", "exact", "over"}
Shapes == PatternShapes \cup {"empty labels", "long"}

Body(i, n) == Str(<<(<<IF i % 2 = 0 THEN "a" ELSE "b", n>>)>>)

Shaped(i, shape) ==
    CASE shape = "ratings only" ->
            [type |-> "object", id |-> <<0, i>>, rating |-> Str(<<(<<"5", 1>>)>>),
             title |-> Undefined, content |-> Undefined]
      [] shape = "empty labels" ->
            [type |-> "object", id |-> <<0, i>>, rating |-> Undefined,
             title |-> Str(<<>>), content |-> Str(<<>>)]
      [] shape = "short" ->
            [type |-> "object", id |-> <<0, i>>, rating |-> Str(<<(<<"1", 1>>)>>),
             title |-> Str(<<(<<"t", 1 + (i % 3)>>)>>), content |-> Body(i, 10)]
      [] shape = "exact" ->
            [type |-> "object", id |-> <<0, i>>, rating |-> Str(<<(<<"4", 1>>)>>),
             title |-> Undefined, content |-> Body(i, ExactBody)]
      [] shape = "over" ->
            [type |-> "object", id |-> <<0, i>>, rating |-> Str(<<(<<"2", 1>>)>>),
             title |-> Str(<<>>), content |-> Body(i, ExactBody + 1)]
      [] shape = "long" ->
            [type |-> "object", id |-> <<0, i>>, rating |-> Str(<<(<<"3", 1>>)>>),
             title |-> Str(<<(<<"t", 2>>)>>), content |-> Body(i, LongLen + i)]

ReduceCounts == (0..MaxFew) \cup ((MAX_REVIEWS - 1)..(MAX_REVIEWS + MaxOver))

\* the first entry has a shape of its own, the others repeat a pattern
ReduceInputs ==
    UNION {{[i \in 1..n |-> Shaped(i, IF i = 1 THEN h
                                      ELSE f[((i - 2) % PatternLen) + 1])] :
              n \in ReduceCounts, f \in [1..PatternLen -> PatternShapes]} :
           h \in Shapes}

InitReduce ==
    /\ pc = "flatten"
    /\ body = JsonBody(InputString(D7))
    /\ keyConfigured = TRUE
    /\ input = InputString(D7)
    /\ appId = D7
    /\ appInfo = [type |-> "object", found |-> TRUE]
    /\ page = 1
    /\ allReviews \in ReduceInputs
    /\ reviewContents = <<>>
    /\ processedReviews = <<>>
    /\ completionText = <<>>
    /\ response = NoResponse
    /\ requests = <<>>
    /\ pages = <<>>
    /\ delays = <<>>
    /\ completions = <<>>
    /\ thrown = NoError

NextReduce ==
    \/ Flatten
    \/ AnalyzeStart

SpecReduce == InitReduce /\ [][NextReduce]_vars

-----------------------------------------------------------------------------
(* Properties of the paginated fetch *)

PageRequests == {i \in DOMAIN requests : requests[i].kind = "page"}

\* the entries page j delivered to the loop
Delivered(j) == fetchReviewsPage(Upstream(j, pages[j]))

\* the entries of pages 1..k, in page order
RECURSIVE Concatenated(_)
Concatenated(k) ==
    IF k = 0 THEN <<>> ELSE Concatenated(k - 1) \o Spread(Delivered(k))

First(seq, n) == SubSeq(seq, 1, Min(n, Len(seq)))

\* C1: one request issues at most 10 page requests, and the review sequence
\* it accumulates and hands to the reducer never holds more than 500 entries.
C1_PageAndEntryCaps ==
    /\ Cardinality(PageRequests) <= 10
    /\ Len(allReviews) <= 500
    /\ Len(reviewContents) <= 500

\* ten page requests were issued and 500 entries reached the reducer
C1_Witness ==
    /\ Cardinality(PageRequests) = 10
    /\ pc = "awaitCompletion"
    /\ Len(allReviews) = 500
    /\ Len(reviewContents) = 500

\* page k is the first page that yielded zero entries
FirstEmpty(k) ==
    /\ k \in 1..Len(pages)
    /\ LengthOf(Delivered(k)) = Number(0)
    /\ \A j \in 1..(k - 1) : LengthOf(Delivered(j)) # Number(0)

ArrayKinds == {"empty array", "page", "short page", "big page", "null entries"}

\* C3: the fetcher never throws: a page request that ends in a transport
\* error, a non-success status, an unparsable body or a body whose feed or
\* entry is missing or no array counts as zero entries (it ends the loop and
\* adds nothing), no request ends in an error response because of a page
\* outcome, and a fetch that failed entirely hands the empty sequence on.
C3_FetcherNeverThrows ==
    /\ \A j \in 1..Len(pages) :
          pages[j] \notin ArrayKinds =>
              /\ Len(pages) = j
              /\ allReviews = First(Concatenated(j - 1), 500)
              /\ pc \in {"flatten", "analyze", "awaitCompletion", "done"}
    /\ (pc = "done" /\ pages # <<>>) => response.status # 500
    /\ (pc = "done" /\ pages # <<>> /\ pages[1] \notin ArrayKinds) =>
          /\ allReviews = <<>>
          /\ keyConfigured => \E i \in DOMAIN requests :
                                  requests[i].kind = "completion"

-----------------------------------------------------------------------------
(* Properties of the reducer *)

\* the estimated tokens of a text: its length over 4, rounded up
TokenCount(text) == (RLen(text) + 3) \div 4

\* the summed estimate of the first n reviews, ten at a time
RECURSIVE TokenSumTo(_, _)
TokenSumTo(reviews, n) ==
    IF n = 0 THEN 0
    ELSE IF n % 10 # 0 THEN TokenCount(reviews[n]) + TokenSumTo(reviews, n - 1)
    ELSE TokenSumTo(reviews, n - 10)
         + TokenCount(reviews[n - 9]) + TokenCount(reviews[n - 8])
         + TokenCount(reviews[n - 7]) + TokenCount(reviews[n - 6])
         + TokenCount(reviews[n - 5]) + TokenCount(reviews[n - 4])
         + TokenCount(reviews[n - 3]) + TokenCount(reviews[n - 2])
         + TokenCount(reviews[n - 1]) + TokenCount(reviews[n])

TokenSum(reviews) == TokenSumTo(reviews, Len(reviews))

\* the retained reviews: the first 100 flattened reviews, each truncated
Retained ==
    [i \in 1..Min(100, Len(reviewContents)) |->
        truncateToTokens(reviewContents[i], 1000)]

Reduced == pc = "awaitCompletion"

\* C4: whatever the reviews, the blocks embedded in the prompt have a summed
\* estimated-token count of at most 6000.
C4_AggregateCap == TokenSum(processedReviews) <= 6000

\* the reducer has run on reviews whose retained blocks exceed the cap
C4_Witness == Reduced /\ TokenSum(Retained) > 6000

\* C5: the reducer's result is the longest prefix of the retained reviews
\* whose summed estimate is at most 6000: items are dropped from the end one
\* at a time until the running sum no longer exceeds the cap.
C5_LongestPrefixWithinCap ==
    Reduced =>
        \E n \in 0..Len(Retained) :
            /\ processedReviews = First(Retained, n)
            /\ TokenSum(First(Retained, n)) <= 6000
            /\ n < Len(Retained) => TokenSum(First(Retained, n + 1)) > 6000

\* C6: every block of the reduction result is within the per-item cap: the
\* estimate of a text truncated to 1000 tokens is at most 1000, also when
\* the text was cut and the marker appended.
C6_PerItemCap ==
    /\ \A i \in DOMAIN processedReviews : TokenCount(processedReviews[i]) <= 1000
    /\ \A i \in DOMAIN reviewContents :
          TokenCount(truncateToTokens(reviewContents[i], 1000)) <= 1000

HasText(review) ==
    \/ LabelOr(Field(review, "title"), <<>>) # <<>>
    \/ LabelOr(Field(review, "content"), <<>>) # <<>>

\* C8: an entry with neither title nor body text (ratings only) is dropped:
\* it gives no block and does not count toward the 100-item cap, so the
\* flattened sequence has one block per entry that has text.
C8_RatingsOnlyDropped ==
    pc \in {"analyze", "awaitCompletion"} =>
        Len(reviewContents)
            = Cardinality({i \in DOMAIN allReviews : HasText(allReviews[i])})

-----------------------------------------------------------------------------
(* Properties of the identifier extractor *)

IsIdString(t) == Len(t) \in 7..12 /\ \A i \in 1..Len(t) : t[i] \in Digits

\* s without the white space at its ends
Trimmed(s) ==
    LET solid == {i \in 1..Len(s) : s[i] \notin WhiteSpace}
    IN  IF solid = {} THEN <<>>
        ELSE SubSeq(s, CHOOSE i \in solid : \A j \in solid : i <= j,
                       CHOOSE i \in solid : \A j \in solid : i >= j)

\* the places of s where /id is followed by at least 7 digits
IdPlaces(s) ==
    {i \in 1..Len(s) :
        /\ i + 9 <= Len(s)
        /\ s[i] = "/" /\ s[i + 1] = "i" /\ s[i + 2] = "d"
        /\ \A j \in 3..9 : s[i + j] \in Digits}

\* the digits after the first such place, at most 12 of them
FirstIdGroup(s) ==
    LET i == CHOOSE i \in IdPlaces(s) : \A j \in IdPlaces(s) : i <= j
        sizes == {k \in 7..12 : /\ i + 2 + k <= Len(s)
                                /\ \A j \in 1..k : s[i + 2 + j] \in Digits}
        k == CHOOSE k \in sizes : \A m \in sizes : k >= m
    IN  SubSeq(s, i + 3, i + 2 + k)

Rejected ==
    /\ pc = "done"
    /\ response.status = 400
    /\ requests = <<>>

-----------------------------------------------------------------------------
(* Properties of the response parser *)

\* the completion returned a text that parses as JSON, and the request was
\* answered with an analysis
AnalysisReturned ==
    /\ pc = "done"
    /\ \E i \in DOMAIN requests : requests[i].kind = "completion"
    /\ JSONParse(StripFences(TrimText(completionText))).ok
    /\ response.status = 200

\* C10: whenever the completion text parses as JSON, the analysis returned
\* has themes and prioritizedThemes, and each is an array: a field that is
\* absent or no array is replaced by the empty array.
C10_ThemesAreArrays ==
    AnalysisReturned =>
        /\ response.themes.type = "array"
        /\ response.prioritizedThemes.type = "array"

-----------------------------------------------------------------------------
(* Properties of the error paths *)

CompletionRequests == {i \in DOMAIN requests : requests[i].kind = "completion"}

\* the completion call returned a completion whose text was read (line 196)
TextRead(o) == o.kind \in {"text", "empty choices", "no message", "null content"}

\* the text, trimmed and without its fences, is no JSON
Unparsable(o) == ~JSONParse(StripFences(TrimText(ContentOf(o)))).ok

EmptyArray == [type |-> "array", items |-> <<>>]

\* C11: if the completion text, trimmed and without its fences (the empty
\* text included), cannot be parsed as JSON, the request ends with a
\* ValidationError: status 400, message 'Failed to parse analysis response'.
\* The failure is terminal: the completion endpoint was invoked once and is
\* not invoked again, and the error is not turned into an APIConnectionError.
C11_ParseFailureIsTerminal ==
    \A i \in DOMAIN completions :
        (TextRead(completions[i]) /\ Unparsable(completions[i])) =>
            /\ pc = "done"
            /\ thrown.class = "ValidationError"
            /\ response.status = 400
            /\ response.error = "Failed to parse analysis response"
            /\ Len(completions) = 1
            /\ Cardinality(CompletionRequests) = 1

\* a fenced analysis followed by prose was received and answered with 400
C11_Witness ==
    /\ pc = "done"
    /\ completions # <<>>
    /\ completions[1].kind = "text"
    /\ Len(completions[1].text) > Len(EmptyAnalysis)
    /\ Unparsable(completions[1])
    /\ response.status = 400

C14_FailsFastWithoutKey ==
    ~keyConfigured =>
        /\ requests = <<>>
        /\ (pc = "done" /\ appId # <<>>) =>
              /\ response.status = 400
              /\ response.error = "OpenAI API key is not configured"

-----------------------------------------------------------------------------
(* Properties of the fetch loop's order *)

\* the number of entries page j delivered, -1 if what it delivered is not
\* iterable
DeliveredCount(j) ==
    LET d == Delivered(j)
    IN  IF Iterable(d) THEN LengthOf(d).v ELSE -1

PageCounts == [j \in 1..Len(pages) |-> DeliveredCount(j)]

\* pages 1..k each delivered entries
Accumulating(c, k) == \A j \in 1..k : c[j] > 0

\* the number of entries pages 1..k delivered
RECURSIVE Accumulated(_, _)
Accumulated(c, k) == IF k = 0 THEN 0 ELSE Accumulated(c, k - 1) + c[k]

\* page k is the page on which the accumulated count reached 500
ReachedAt(c, k) ==
    /\ k \in DOMAIN c
    /\ Accumulating(c, k)
    /\ Accumulated(c, k - 1) < 500
    /\ Accumulated(c, k) >= 500

\* C15: as soon as the accumulated entry count reaches or exceeds 500 after
\* adding a page, the sequence is cut to exactly its first 500 entries, in
\* fetch order, and the fetch stops: no further page is requested and no
\* inter-page delay is taken after that page.
C15_CutAndStopAtThreshold ==
    LET c == PageCounts
    IN  \A k \in 1..10 :
            ReachedAt(c, k) =>
                /\ allReviews = First(Concatenated(k), 500)
                /\ Len(allReviews) = 500
                /\ Len(pages) = k
                /\ Cardinality(PageRequests) = k
                /\ \A i \in PageRequests : requests[i].page <= k
                /\ Len(delays) = k - 1
                /\ pc \notin {"loop", "awaitPage", "delay"}

\* the second page brought the count over 500 and the 500 went on
C15_Witness ==
    /\ ReachedAt(PageCounts, 2)
    /\ Accumulated(PageCounts, 2) > 500
    /\ Len(allReviews) = 500
    /\ pc = "awaitCompletion"

\* the number of page requests among the first i requests
PageRank(i) == Cardinality({j \in PageRequests : j <= i})

-----------------------------------------------------------------------------
(* Properties of the empty review set *)

\* the answers that leave a page without entries
ZeroKinds ==
    {"network error", "status", "not json", "null body", "no feed",
     "null feed", "no entry", "empty array", "empty string", "zero"}

\* the first page had no entries: the fetcher yields zero entries
EmptyFetch == pages # <<>> /\ pages[1] \in ZeroKinds

\* reviews were flattened and the reducer has left none of them
EmptyReduction ==
    /\ pc \in {"awaitCompletion", "done"}
    /\ reviewContents # <<>>
    /\ processedReviews = <<>>

\* the status the completion call and the parser decide
OutcomeStatus(o) ==
    IF o.kind \in {"rejected", "no choices"} THEN 503
    ELSE IF ParseAnalysis(ContentOf(o)).ok THEN 200
    ELSE 400

EmptyReductionAnswered ==
    /\ pc = "done"
    /\ EmptyReduction
    /\ response.status = 200

-----------------------------------------------------------------------------
(* Termination *)

\* C18: provided every network call (the lookup, each page request, the
\* completion call) eventually returns or fails, every request eventually
\* ends with exactly one response, a success or a structured error: the
\* fetch loop cannot go on forever and the reducer's loop ends.  A response,
\* once given, is never replaced, and none is given before the end.
C18_EventuallyOneResponse ==
    /\ <>(pc = "done" /\ response.type = "response"
             /\ response.status \in {200, 400, 500, 503})
    /\ [](response # NoResponse => pc = "done")
    /\ [][response # NoResponse => response' = response]_vars
    /\ [][pc = "done" => pc' = "done"]_vars

\* a request that fetched ten pages, dropped every one of its hundred
\* retained reviews in the reducer's loop and was answered
C18_Witness ==
    /\ pc = "done"
    /\ Len(pages) = 10
    /\ Len(reviewContents) >= 100
    /\ processedReviews = <<>>
    /\ response.type = "response"

-----------------------------------------------------------------------------
(* The analysis step and status 500 *)

\* a fault raised before the analysis step: the body is no JSON object, the
\* last page delivered something that cannot be spread, or an entry is null
OutsideFault ==
    \/ body.kind # "object"
    \/ pages # <<>> /\ DeliveredCount(Len(pages)) = -1
    \/ \E i \in DOMAIN allReviews : allReviews[i] = Null

====
